---- MODULE Spec2Model ----
(***************************************************************************)
(* Model of langchain/src/callbacks/manager.ts (CallbackManager and the    *)
(* per-category run managers) and of the streaming path of                 *)
(* langchain/src/chat_models/openai.ts (ChatOpenAI._generate).             *)
(*                                                                         *)
(* JavaScript arrays are objects: `heap` maps an array reference to its    *)
(* contents, and managers hold references.  A push mutates the array in    *)
(* place; an assignment of a fresh array changes the reference.            *)
(***************************************************************************)
EXTENDS Integers, Sequences, FiniteSets, TLC

VARIABLES
  hobj,      \* handler object -> its suppression flags
  heap,      \* array reference -> contents (a sequence of handler objects)
  disp,      \* the CallbackManager objects created so far
  runs,      \* the run managers created so far
  nextUuid,  \* number of the next identifier uuidv4() returns
  op,        \* the dispatch operation being awaited, or the last completed one
  origin,    \* history: for each dispatcher, the run it was derived from (0: none)
  snap,      \* history: for each run, its dispatcher, the identifiers its start
             \* event carried, and the dispatcher's array contents when the
             \* run manager was constructed
  reg,       \* history: for each dispatcher, the handlers passed to
             \* addHandler/setHandlers on it (any: all; inh: with inherit = true)
  calls,     \* history: registration calls made so far, counted up to MaxCalls
  last,      \* history: the last registration call, its receiver and arguments
  tracing,   \* process.env.LANGCHAIN_TRACING !== undefined
  configured,\* the last CallbackManager.configure call: its arguments and result
  llm,       \* the ChatOpenAI instance: the fields its constructor set
  gen,       \* the _generate call on it: position, stream state, response
  tokens     \* the handleLLMNewToken dispatches _generate started and left

vars == <<hobj, heap, disp, runs, nextUuid, op, origin, snap, reg, calls, last,
          tracing, configured, llm, gen, tokens>>

coreVars    == <<hobj, heap, disp, runs, nextUuid, op, origin, snap, reg, calls, last>>
configVars  == <<tracing, configured>>
adapterVars == <<llm, gen, tokens>>

(* ---------------------------- bounds ----------------------------------- *)
NumHandlers == 2      \* handler objects that exist
MaxLen      == 2      \* longest handler array
MaxDisp     == 3      \* dispatchers (CallbackManager objects) ever created
MaxRuns     == 2      \* run managers ever created
MaxCalls    == 1      \* registration calls interleaved with runs
MaxMsgs     == 2      \* stream messages delivered to one _generate call
MaxParts    == 1      \* choices carried by one stream message
MaxIndex    == 1      \* largest choice index in a stream message
MaxRoster   == 3      \* longest list passed to setHandlers on its own

(* ---------------------------- values ----------------------------------- *)
Handlers == 1..NumHandlers

Undefined == [tag |-> "undefined", n |-> 0]

\* the n-th identifier uuidv4() returns
Uuid(n)   == [tag |-> "uuid", n |-> n]
CallerId  == [tag |-> "caller", n |-> 0]

\* A handler object: its stable name, its three suppression flags, and whether
\* its callback methods are async (return a promise that settles later) or
\* plain functions that have returned normally when the call returns.
Flags == [ignoreLLM : BOOLEAN, ignoreChain : BOOLEAN, ignoreAgent : BOOLEAN]

NoFlags == [ignoreLLM |-> FALSE, ignoreChain |-> FALSE, ignoreAgent |-> FALSE]

HandlerObject(name, flags, async) ==
  [name |-> name, ignoreLLM |-> flags.ignoreLLM, ignoreChain |-> flags.ignoreChain,
   ignoreAgent |-> flags.ignoreAgent, async |-> async]

UserName(h)  == [cls |-> "user", n |-> h]
ConsoleName  == [cls |-> "console_callback_handler", n |-> 0]
TracerName   == [cls |-> "langchain_tracer", n |-> 0]

RECURSIVE SeqsUpTo(_, _)
SeqsUpTo(S, n) ==
  IF n = 0 THEN {<<>>}
  ELSE LET shorter == SeqsUpTo(S, n - 1)
       IN  shorter \cup {Append(s, x) : s \in {t \in shorter : Len(t) = n - 1}, x \in S}

Range(s) == {s[i] : i \in DOMAIN s}

\* Array.prototype.filter with the predicate (_handler) => _handler !== handler
RECURSIVE FilterOut(_, _)
FilterOut(s, h) ==
  IF s = <<>> THEN <<>>
  ELSE IF s[1] = h THEN FilterOut(Tail(s), h)
       ELSE <<s[1]>> \o FilterOut(Tail(s), h)

(* ---------------------------- heap ------------------------------------- *)
\* reference of a newly allocated array: the smallest unused one
NewRef(hp) == CHOOSE r \in 1..(Cardinality(DOMAIN hp) + 1) :
                 /\ r \notin DOMAIN hp
                 /\ \A q \in 1..(r - 1) : q \in DOMAIN hp

\* arrays reachable from a dispatcher or a run manager; the rest is garbage
Reachable(dp, rn) ==
  {dp[d].handlers : d \in DOMAIN dp} \cup {dp[d].inheritableHandlers : d \in DOMAIN dp}
  \cup {rn[r].handlers : r \in DOMAIN rn} \cup {rn[r].inheritableHandlers : r \in DOMAIN rn}

Collect(hp, dp, rn) == [r \in (DOMAIN hp \cap Reachable(dp, rn)) |-> hp[r]]

(* ------------------ CallbackManager: registration ---------------------- *)
\* A manager state st is [heap, m]: the heap and the manager's fields.

\* constructor(parentRunId): handlers = [], inheritableHandlers = []
NewManager(hp, parentRunId) ==
  LET r1  == NewRef(hp)
      hp1 == [r \in DOMAIN hp \cup {r1} |-> IF r = r1 THEN <<>> ELSE hp[r]]
      r2  == NewRef(hp1)
      hp2 == [r \in DOMAIN hp1 \cup {r2} |-> IF r = r2 THEN <<>> ELSE hp1[r]]
  IN  [heap |-> hp2,
       m    |-> [handlers |-> r1, inheritableHandlers |-> r2, _parentRunId |-> parentRunId]]

\* (variant: addHandler without the test of `inherit`)
addHandler_AlwaysInherit(st, handler, inherit) ==
  [st EXCEPT !.heap = [st.heap EXCEPT ![st.m.handlers] = Append(@, handler),
                                      ![st.m.inheritableHandlers] = Append(@, handler)]]

\* addHandler(handler, inherit): push onto the arrays the manager refers to
addHandler(st, handler, inherit) ==
  LET hp1 == [st.heap EXCEPT ![st.m.handlers] = Append(@, handler)]
      hp2 == IF inherit
             THEN [hp1 EXCEPT ![st.m.inheritableHandlers] = Append(@, handler)]
             ELSE hp1
  IN  [st EXCEPT !.heap = hp2]

\* (variant: removeHandler comparing the handlers' names)
removeHandler_ByName(st, handler) ==
  LET keep(x) == hobj[x].name # hobj[handler].name
      r1  == NewRef(st.heap)
      hp1 == [r \in DOMAIN st.heap \cup {r1} |->
                IF r = r1 THEN SelectSeq(st.heap[st.m.handlers], keep) ELSE st.heap[r]]
      r2  == NewRef(hp1)
      hp2 == [r \in DOMAIN hp1 \cup {r2} |->
                IF r = r2 THEN SelectSeq(st.heap[st.m.inheritableHandlers], keep)
                ELSE hp1[r]]
  IN  [heap |-> hp2,
       m    |-> [st.m EXCEPT !.handlers = r1, !.inheritableHandlers = r2]]

\* (variant: removeHandler filtering this.handlers only)
removeHandler_HandlersOnly(st, handler) ==
  LET r1  == NewRef(st.heap)
      hp1 == [r \in DOMAIN st.heap \cup {r1} |->
                IF r = r1 THEN FilterOut(st.heap[st.m.handlers], handler) ELSE st.heap[r]]
  IN  [heap |-> hp1, m |-> [st.m EXCEPT !.handlers = r1]]

\* removeHandler(handler): both fields are assigned freshly filtered arrays
removeHandler(st, handler) ==
  LET r1  == NewRef(st.heap)
      hp1 == [r \in DOMAIN st.heap \cup {r1} |->
                IF r = r1 THEN FilterOut(st.heap[st.m.handlers], handler) ELSE st.heap[r]]
      r2  == NewRef(hp1)
      hp2 == [r \in DOMAIN hp1 \cup {r2} |->
                IF r = r2 THEN FilterOut(st.heap[st.m.inheritableHandlers], handler)
                ELSE hp1[r]]
  IN  [heap |-> hp2,
       m    |-> [st.m EXCEPT !.handlers = r1, !.inheritableHandlers = r2]]

RECURSIVE AddAll(_, _, _)
AddAll(st, hs, inherit) ==
  IF hs = <<>> THEN st
  ELSE AddAll(addHandler(st, hs[1], inherit), Tail(hs), inherit)

\* (variant: setHandlers without the two assignments of [])
setHandlers_KeepOld(st, hs, inherit) ==
  AddAll(st, hs, inherit)

\* setHandlers(handlers, inherit): two fresh empty arrays, then addHandler each
setHandlers(st, hs, inherit) ==
  LET cleared == NewManager(st.heap, st.m._parentRunId)
  IN  AddAll(cleared, hs, inherit)

(* ------------------------------ events --------------------------------- *)
StartEvents == {"handleLLMStart", "handleChainStart", "handleToolStart"}

\* the run manager class a start operation returns
RunKind(ev) ==
  CASE ev = "handleLLMStart"   -> "llm"
    [] ev = "handleChainStart" -> "chain"
    [] ev = "handleToolStart"  -> "tool"

\* the handle-operations each run manager class has
RunEvents(kind) ==
  CASE kind = "llm"   -> {"handleText", "handleLLMNewToken", "handleLLMError", "handleLLMEnd"}
    [] kind = "chain" -> {"handleText", "handleChainError", "handleChainEnd",
                          "handleAgentAction", "handleAgentEnd"}
    [] kind = "tool"  -> {"handleText", "handleToolError", "handleToolEnd"}

\* (variant: handleChainEnd testing the flag of the agent events below it)
Gate_ChainEndByAgent(ev) ==
  CASE ev \in {"handleLLMStart", "handleLLMNewToken", "handleLLMError", "handleLLMEnd"}
         -> "ignoreLLM"
    [] ev \in {"handleChainStart", "handleChainError"}
         -> "ignoreChain"
    [] ev \in {"handleChainEnd", "handleAgentAction", "handleAgentEnd",
               "handleToolStart", "handleToolError", "handleToolEnd"}
         -> "ignoreAgent"
    [] OTHER -> "none"

\* (variant: handleText testing ignoreLLM like the other methods of an LLM run)
Gate_TextByLLM(ev) ==
  CASE ev \in {"handleLLMStart", "handleLLMNewToken", "handleLLMError", "handleLLMEnd",
               "handleText"}
         -> "ignoreLLM"
    [] ev \in {"handleChainStart", "handleChainError", "handleChainEnd"}
         -> "ignoreChain"
    [] ev \in {"handleAgentAction", "handleAgentEnd",
               "handleToolStart", "handleToolError", "handleToolEnd"}
         -> "ignoreAgent"
    [] OTHER -> "none"

\* (variant: handleLLMError without the test of ignoreLLM)
Gate_LLMErrorUngated(ev) ==
  CASE ev \in {"handleLLMStart", "handleLLMNewToken", "handleLLMEnd"}
         -> "ignoreLLM"
    [] ev \in {"handleChainStart", "handleChainError", "handleChainEnd"}
         -> "ignoreChain"
    [] ev \in {"handleAgentAction", "handleAgentEnd",
               "handleToolStart", "handleToolError", "handleToolEnd"}
         -> "ignoreAgent"
    [] OTHER -> "none"

\* (variant: the tool run's methods testing ignoreChain)
Gate_ToolRunByChain(ev) ==
  CASE ev \in {"handleLLMStart", "handleLLMNewToken", "handleLLMError", "handleLLMEnd"}
         -> "ignoreLLM"
    [] ev \in {"handleChainStart", "handleChainError", "handleChainEnd",
               "handleToolError", "handleToolEnd"}
         -> "ignoreChain"
    [] ev \in {"handleAgentAction", "handleAgentEnd", "handleToolStart"}
         -> "ignoreAgent"
    [] OTHER -> "none"

\* the end and error events of a run
TerminalEvents == {"handleLLMError", "handleLLMEnd", "handleChainError", "handleChainEnd",
                   "handleToolError", "handleToolEnd"}

\* the flag each fan-out tests before invoking a handler ("none": no test)
Gate(ev) ==
  CASE ev \in {"handleLLMStart", "handleLLMNewToken", "handleLLMError", "handleLLMEnd"}
         -> "ignoreLLM"
    [] ev \in {"handleChainStart", "handleChainError", "handleChainEnd"}
         -> "ignoreChain"
    [] ev \in {"handleAgentAction", "handleAgentEnd",
               "handleToolStart", "handleToolError", "handleToolEnd"}
         -> "ignoreAgent"
    [] OTHER -> "none"

Suppressed(flags, ev) ==
  CASE Gate(ev) = "ignoreLLM"   -> flags.ignoreLLM
    [] Gate(ev) = "ignoreChain" -> flags.ignoreChain
    [] Gate(ev) = "ignoreAgent" -> flags.ignoreAgent
    [] OTHER                    -> FALSE

(* ------------------------------ fan-out --------------------------------- *)
\* this.handlers.map(async (handler) => {...}): one invocation per array slot,
\* all made before the first await; a suppressed handler is not invoked.
FanOut(hs, flags, ev) ==
  [i \in DOMAIN hs |->
     [h |-> hs[i], st |-> IF Suppressed(flags[hs[i]], ev) THEN "skipped"
                          ELSE IF flags[hs[i]].async THEN "pending" ELSE "ok"]]

\* (variant: the async arrow without its try/catch)
Wrapper_NoCatch(st) ==
  CASE st = "pending" -> "pending"
    [] st = "skipped" -> "fulfilled"
    [] st = "ok"      -> "fulfilled"
    [] st = "failed"  -> "rejected"

\* the promise of one async arrow: the try/catch turns a handler's failure
\* into normal completion
Wrapper(st) ==
  CASE st = "pending" -> "pending"
    [] st = "skipped" -> "fulfilled"
    [] st = "ok"      -> "fulfilled"
    [] st = "failed"  -> "fulfilled"

\* (variant: Promise.race in place of Promise.all)
PromiseAll_Race(inv) ==
  IF inv = <<>> THEN "fulfilled"
  ELSE IF \E i \in DOMAIN inv : Wrapper(inv[i].st) = "rejected" THEN "rejected"
  ELSE IF \E i \in DOMAIN inv : Wrapper(inv[i].st) = "fulfilled" THEN "fulfilled"
  ELSE "pending"

\* (variant: a join that is fulfilled only by handlers that succeeded)
PromiseAll_SuccessOnly(inv) ==
  IF \A i \in DOMAIN inv : inv[i].st \in {"skipped", "ok"} THEN "fulfilled" ELSE "pending"

\* (variant: the promise of Promise.all not awaited)
PromiseAll_NotAwaited(inv) == "fulfilled"

\* Promise.all: rejects as soon as one promise rejects, fulfils when all have
PromiseAll(inv) ==
  IF \E i \in DOMAIN inv : Wrapper(inv[i].st) = "rejected" THEN "rejected"
  ELSE IF \A i \in DOMAIN inv : Wrapper(inv[i].st) = "fulfilled" THEN "fulfilled"
  ELSE "pending"

(* ------------------- CallbackManager.configure / copy -------------------- *)
\* The arguments of configure.  inheritableHandlers is absent, a handler list or
\* a CallbackManager; localHandlers is absent or a handler list; options is
\* absent, {verbose: false} or {verbose: true}.
SourceKinds == {"absent", "list", "manager"}
OptionKinds == {"none", "verboseFalse", "verboseTrue"}

\* Body applied to the value of e (e is evaluated once)
With(e, Body(_)) == CHOOSE r \in {Body(x) : x \in {e}} : TRUE

\* handler.copy(): a new handler object with the same configuration
Copies(ho, hs) ==
  [hobj |-> ho \o [i \in DOMAIN hs |-> ho[hs[i]]],
   ids  |-> [i \in DOMAIN hs |-> Len(ho) + i]]

\* (variant: copy registering the handlers themselves, not their copies)
copy_NoDuplicate(w, additionalHandlers, inherit) ==
  LET st1 == setHandlers(NewManager(w.heap, w.m._parentRunId), w.heap[w.m.handlers], TRUE)
  IN  With(AddAll(st1, additionalHandlers, inherit),
           LAMBDA st2 : [undefined |-> FALSE, heap |-> st2.heap,
                         hobj |-> w.hobj, m |-> st2.m])

\* (variant: the duplicates of this.handlers registered with copy's inherit flag)
copy_InheritFlag(w, additionalHandlers, inherit) ==
  LET own   == Copies(w.hobj, w.heap[w.m.handlers])
      extra == Copies(own.hobj, additionalHandlers)
      st1   == setHandlers(NewManager(w.heap, w.m._parentRunId), own.ids, inherit)
  IN  With(AddAll(st1, extra.ids, inherit),
           LAMBDA st2 : [undefined |-> FALSE, heap |-> st2.heap,
                         hobj |-> extra.hobj, m |-> st2.m])

\* copy(additionalHandlers, inherit): a new manager with the same parent run,
\* holding copies of this.handlers (all inheritable: setHandlers' default) and
\* then copies of additionalHandlers with the flag given
copy(w, additionalHandlers, inherit) ==
  LET own   == Copies(w.hobj, w.heap[w.m.handlers])
      extra == Copies(own.hobj, additionalHandlers)
      st1   == setHandlers(NewManager(w.heap, w.m._parentRunId), own.ids, TRUE)
  IN  With(AddAll(st1, extra.ids, inherit),
           LAMBDA st2 : [undefined |-> FALSE, heap |-> st2.heap,
                         hobj |-> extra.hobj, m |-> st2.m])

\* (variant: the test of line 422 on the lists' lengths)
HasSource_NonEmpty(source, sourceLen, localHandlers, localLen) ==
  \/ source = "manager"
  \/ source = "list" /\ sourceLen > 0
  \/ localHandlers = "list" /\ localLen > 0

\* `inheritableHandlers || localHandlers`: an array, even an empty one, and a
\* manager are truthy; undefined is not
HasSource(source, sourceLen, localHandlers, localLen) ==
  source # "absent" \/ localHandlers # "absent"

HasName(w, name) ==
  \E i \in DOMAIN w.heap[w.m.handlers] : w.hobj[w.heap[w.m.handlers][i]].name = name

\* a newly constructed handler with the given name, added to the manager
AddNew(w, name, inherit) ==
  With(addHandler([heap |-> w.heap, m |-> w.m], Len(w.hobj) + 1, inherit),
       LAMBDA st : [undefined |-> FALSE, heap |-> st.heap,
                    hobj |-> Append(w.hobj, HandlerObject(name, NoFlags, FALSE)),
                    m |-> st.m])

\* (variant: localHandlers copied with inherit = true)
ConfigureBase_LocalInherit(hp, ho, source, mgr, sourceList, localHandlers, localList) ==
  IF HasSource(source, Len(sourceList), localHandlers, Len(localList))
  THEN With(IF source = "manager"
            THEN [heap |-> hp, m |-> mgr]
            ELSE setHandlers(NewManager(hp, Undefined), sourceList, TRUE),
            LAMBDA base :
              copy([heap |-> base.heap, m |-> base.m, hobj |-> ho], localList, TRUE))
  ELSE [undefined |-> TRUE, heap |-> hp, hobj |-> ho, m |-> mgr]

\* lines 421-430: the manager built from inheritableHandlers and localHandlers
ConfigureBase(hp, ho, source, mgr, sourceList, localHandlers, localList) ==
  IF HasSource(source, Len(sourceList), localHandlers, Len(localList))
  THEN With(IF source = "manager"
            THEN [heap |-> hp, m |-> mgr]
            ELSE setHandlers(NewManager(hp, Undefined), sourceList, TRUE),
            LAMBDA base :
              copy([heap |-> base.heap, m |-> base.m, hobj |-> ho], localList, FALSE))
  ELSE [undefined |-> TRUE, heap |-> hp, hobj |-> ho, m |-> mgr]

\* lines 433-435: a manager is created if there is none yet
ConfigureEnsure(w) ==
  IF w.undefined
  THEN With(NewManager(w.heap, Undefined),
            LAMBDA st : [undefined |-> FALSE, heap |-> st.heap, hobj |-> w.hobj, m |-> st.m])
  ELSE w

\* lines 436-444: the console handler, unless one of that name is registered
ConfigureConsole(w, options) ==
  IF options = "verboseTrue" /\ ~HasName(w, ConsoleName)
  THEN AddNew(w, ConsoleName, FALSE)
  ELSE w

\* (variant: the tracer added without the test of the names registered)
ConfigureTracer_NoDedup(w, env) ==
  IF env
  THEN AddNew(w, TracerName, TRUE)
  ELSE w

\* lines 445-453: the tracer, unless one of that name is registered
ConfigureTracer(w, env) ==
  IF env /\ ~HasName(w, TracerName)
  THEN AddNew(w, TracerName, TRUE)
  ELSE w

\* configure(inheritableHandlers, localHandlers, options).  hp, ho: the heap and
\* the handler objects; mgr: the manager passed (source = "manager");
\* sourceList, localList: the lists passed (empty when absent).
\* Result: [undefined, heap, hobj, m] (m is meaningless when undefined).
configure(hp, ho, source, mgr, sourceList, localHandlers, localList, options, env) ==
  With(ConfigureBase(hp, ho, source, mgr, sourceList, localHandlers, localList),
       LAMBDA w1 :
         IF options = "verboseTrue" \/ env
         THEN With(ConfigureEnsure(w1),
                   LAMBDA w2 : With(ConfigureConsole(w2, options),
                                    LAMBDA w3 : ConfigureTracer(w3, env)))
         ELSE w1)

NotConfigured == [called |-> FALSE, source |-> "absent", sourceLen |-> 0,
                  localHandlers |-> "absent", localList |-> <<>>, options |-> "none",
                  result |-> "none", src |-> 0, d |-> 0]

(* ------------------------------ ChatOpenAI ------------------------------- *)
\* The instance fields the request depends on.  n: 0 stands for "not given" in
\* the constructor's fields and in modelKwargs; stop: whether stop sequences are
\* set; kwN, kwStream: the entries n and stream of modelKwargs.
DefaultFields == [streaming |-> FALSE, n |-> 1, stop |-> FALSE,
                  kwN |-> 0, kwStream |-> "absent"]

\* constructor(fields): the fields set, and whether the constructor threw
Construct(fields) ==
  LET n         == IF fields.n = 0 THEN DefaultFields.n ELSE fields.n
      streaming == fields.streaming = "true"
  IN  [threw |-> streaming /\ n > 1,
       llm   |-> [streaming |-> streaming, n |-> n, stop |-> fields.stop,
                  kwN |-> fields.kwN, kwStream |-> fields.kwStream]]

\* invocationParams(): the instance's fields, overridden by modelKwargs
invocationParams(m) ==
  [n      |-> IF m.kwN # 0 THEN m.kwN ELSE m.n,
   stop   |-> m.stop,
   stream |-> IF m.kwStream # "absent" THEN m.kwStream = "true" ELSE m.streaming]

NoParams == [n |-> 0, stop |-> FALSE, stream |-> FALSE]

\* A slot of response.choices: a hole of the sparse array, or a choice with
\* its index, whether finish_reason is set, and its message's content.
Hole == [hole |-> TRUE, index |-> 0, finish_reason |-> FALSE, content |-> <<>>]

\* part.delta?.content: absent, or a piece of text
NoContent == [present |-> FALSE, text |-> <<>>]
Content(t) == [present |-> TRUE, text |-> t]

\* part.delta?.content ?? ""
OrEmpty(c) == IF c.present THEN c.text ELSE <<>>

\* response.choices.find((c) => c.index === part.index): the position found
\* (0: none), or -1 when the predicate is applied to a hole first, where
\* reading c.index throws
RECURSIVE FindFrom(_, _, _)
FindFrom(choices, index, j) ==
  IF j > Len(choices) THEN 0
  ELSE IF choices[j].hole THEN -1
  ELSE IF choices[j].index = index THEN j
  ELSE FindFrom(choices, index, j + 1)

Find(choices, index) == FindFrom(choices, index, 1)

\* response.choices[index] = choice: the array grows, with holes, as needed
Place(choices, index, choice) ==
  [j \in 1..(IF index + 1 > Len(choices) THEN index + 1 ELSE Len(choices)) |->
     IF j = index + 1 THEN choice
     ELSE IF j \in DOMAIN choices THEN choices[j] ELSE Hole]

\* lines 344-364 for one part: the choices after it, or that find threw
UpdateChoice(choices, part) ==
  LET at == Find(choices, part.index)
  IN  IF at = -1 THEN [threw |-> TRUE, choices |-> choices]
      ELSE IF at = 0
      THEN [threw |-> FALSE,
            choices |-> Place(choices, part.index,
                              [hole |-> FALSE, index |-> part.index,
                               finish_reason |-> part.finish,
                               content |-> OrEmpty(part.delta) \o OrEmpty(part.delta)])]
      ELSE [threw |-> FALSE,
            choices |-> [choices EXCEPT ![at].content = @ \o OrEmpty(part.delta)]]

\* lines 422-430: the text of every choice of the response
Generations(choices) == [j \in DOMAIN choices |-> choices[j].content]

\* the _generate call: where it is, the stream, the promise it awaits and the
\* closure variables response, resolved and rejected (optStop: whether the
\* call's options had stop sequences)
NotGenerating == [pc |-> "idle", params |-> NoParams, open |-> FALSE,
                  promise |-> "none", data |-> "none",
                  resolved |-> FALSE, rejected |-> FALSE,
                  hasResponse |-> FALSE, choices |-> <<>>,
                  received |-> 0, generations |-> <<>>, optStop |-> FALSE]

(* ---------------------------- state ------------------------------------ *)
NoOp == [phase |-> "idle", kind |-> "none", ev |-> "none", d |-> 0, rm |-> 0,
         runId |-> Undefined, parentRunId |-> Undefined, inv |-> <<>>,
         result |-> "none", invoked |-> 0, failed |-> 0,
         ended |-> FALSE, after |-> FALSE]

NoCall == [call |-> "none", d |-> 0, hs |-> <<>>, inherit |-> FALSE]

\* A CallbackManager constructed without a parent run, after the addHandler
\* calls of `seed` (a sequence of [h, inherit]).
RECURSIVE Seeded(_, _)
Seeded(st, seed) ==
  IF seed = <<>> THEN st
  ELSE Seeded(addHandler(st, seed[1].h, seed[1].inherit), Tail(seed))

InitManager(seed) ==
  /\ LET st == Seeded(NewManager(<<>>, Undefined), seed)
     IN  /\ heap = st.heap
         /\ disp = <<st.m>>
  /\ runs = <<>>
  /\ nextUuid = 1
  /\ op = NoOp
  /\ origin = <<0>>
  /\ snap = <<>>
  /\ reg = <<[inh |-> {seed[i].h : i \in {j \in DOMAIN seed : seed[j].inherit}},
              any |-> {seed[i].h : i \in DOMAIN seed}]>>
  /\ calls = 0
  /\ last = NoCall

\* no configure call made, no ChatOpenAI call in progress
InitIdle ==
  /\ tracing = FALSE
  /\ configured = NotConfigured
  /\ llm = DefaultFields
  /\ gen = NotGenerating
  /\ tokens = <<>>

\* nothing registered, or one inheritable handler and one local handler
Seeds == {<<>>, <<[h |-> 1, inherit |-> TRUE], [h |-> NumHandlers, inherit |-> FALSE]>>}

Init ==
  /\ hobj = [h \in Handlers |-> HandlerObject(UserName(h), NoFlags, FALSE)]
  /\ \E seed \in Seeds : InitManager(seed)
  /\ InitIdle

\* Fan-out: handlers with every combination of flags, all with async callbacks,
\* registered (inheritable) on the one dispatcher.
InitFan ==
  /\ \E f \in [Handlers -> Flags] :
        hobj = [h \in Handlers |-> HandlerObject(UserName(h), f[h], TRUE)]
  /\ InitManager([i \in 1..MaxLen |-> [h |-> ((i - 1) % NumHandlers) + 1, inherit |-> TRUE]])
  /\ InitIdle

St(d) == [heap |-> heap, m |-> disp[d]]

Commit(d, st) ==
  /\ disp' = [disp EXCEPT ![d] = st.m]
  /\ heap' = Collect(st.heap, disp', runs)
  /\ calls' = IF calls < MaxCalls THEN calls + 1 ELSE calls

AddHandler(d, h, inherit) ==
  /\ Len(heap[disp[d].handlers]) < MaxLen
  /\ Commit(d, addHandler(St(d), h, inherit))
  /\ reg' = [reg EXCEPT ![d].any = @ \cup {h},
                        ![d].inh = IF inherit THEN @ \cup {h} ELSE @]
  /\ last' = [call |-> "addHandler", d |-> d, hs |-> <<h>>, inherit |-> inherit]
  /\ UNCHANGED <<hobj, runs, nextUuid, op, origin, snap>>
  /\ UNCHANGED <<configVars, adapterVars>>

RemoveHandler(d, h) ==
  /\ Commit(d, removeHandler(St(d), h))
  /\ last' = [call |-> "removeHandler", d |-> d, hs |-> <<h>>, inherit |-> FALSE]
  /\ UNCHANGED <<hobj, runs, nextUuid, op, origin, snap, reg>>
  /\ UNCHANGED <<configVars, adapterVars>>

SetHandlers(d, hs, inherit) ==
  /\ Commit(d, setHandlers(St(d), hs, inherit))
  /\ reg' = [reg EXCEPT ![d].any = @ \cup Range(hs),
                        ![d].inh = IF inherit THEN @ \cup Range(hs) ELSE @]
  /\ last' = [call |-> "setHandlers", d |-> d, hs |-> hs, inherit |-> inherit]
  /\ UNCHANGED <<hobj, runs, nextUuid, op, origin, snap>>
  /\ UNCHANGED <<configVars, adapterVars>>

(* ------------------ CallbackManager: start operations ------------------- *)
\* handleLLMStart / handleChainStart / handleToolStart up to the await:
\* the default runId is minted and every applicable handler is invoked.
StartBegin(d, ev, supplied) ==
  /\ op.phase = "idle"
  /\ Len(runs) < MaxRuns
  /\ op' = [phase |-> "running", kind |-> "start", ev |-> ev, d |-> d, rm |-> 0,
            runId |-> IF supplied THEN CallerId ELSE Uuid(nextUuid),
            parentRunId |-> disp[d]._parentRunId,
            inv |-> FanOut(heap[disp[d].handlers], hobj, ev),
            result |-> "none", invoked |-> 0, failed |-> 0,
            ended |-> FALSE, after |-> FALSE]
  /\ nextUuid' = IF supplied THEN nextUuid ELSE nextUuid + 1
  /\ UNCHANGED <<hobj, heap, disp, runs, origin, snap, reg, calls>>
  /\ UNCHANGED <<configVars, adapterVars, last>>

\* a handler's invocation settles: its promise fulfils or rejects
Settle(i, outcome) ==
  /\ op.phase = "running"
  /\ i \in DOMAIN op.inv
  /\ op.inv[i].st = "pending"
  /\ op' = [op EXCEPT !.inv[i].st = outcome]
  /\ UNCHANGED <<hobj, heap, disp, runs, nextUuid, origin, snap, reg, calls>>
  /\ UNCHANGED <<configVars, adapterVars, last>>

\* history of a start fan-out: for each handler of the array, whether it was
\* invoked and whether its invocation has settled
Started(inv) ==
  [i \in DOMAIN inv |-> [h |-> inv[i].h,
                         invoked |-> inv[i].st # "skipped",
                         settled |-> inv[i].st # "pending"]]

\* What the caller of a dispatch operation is left with when its await ends:
\* how the call ended and, for a start operation, the run manager returned
\* (plus, as history, how many handlers were invoked and how many failed, and
\* whether the operation dispatched the end or error event of run rm).
Completed(result, rm) ==
  [NoOp EXCEPT !.result = result, !.rm = rm,
               !.ended = op.kind = "handle" /\ op.ev \in TerminalEvents,
               !.invoked = Cardinality({i \in DOMAIN op.inv : op.inv[i].st # "skipped"}),
               !.failed = Cardinality({i \in DOMAIN op.inv : op.inv[i].st = "failed"})]

\* (variant: the run manager constructed with an identifier of its own)
StartEnd_OwnRunId ==
  /\ op.phase = "running"
  /\ op.kind = "start"
  /\ PromiseAll(op.inv) # "pending"
  /\ IF PromiseAll(op.inv) = "fulfilled"
     THEN /\ runs' = Append(runs, [kind |-> RunKind(op.ev),
                                   runId |-> Uuid(nextUuid),
                                   handlers |-> disp[op.d].handlers,
                                   inheritableHandlers |-> disp[op.d].inheritableHandlers,
                                   _parentRunId |-> disp[op.d]._parentRunId])
          /\ snap' = Append(snap, [d |-> op.d,
                                   runId |-> op.runId,
                                   parentRunId |-> op.parentRunId,
                                   handlers |-> heap[disp[op.d].handlers],
                                   inheritableHandlers |-> heap[disp[op.d].inheritableHandlers],
                                   started |-> Started(op.inv)])
          /\ op' = Completed("returned", Len(runs) + 1)
     ELSE /\ op' = Completed("threw", 0)
          /\ UNCHANGED <<runs, snap>>
  /\ UNCHANGED <<hobj, heap, disp, nextUuid, origin, reg, calls>>
  /\ UNCHANGED <<configVars, adapterVars, last>>

\* the await returns: the run manager is built from the fields the manager
\* has now (the array references, not copies)
StartEnd ==
  /\ op.phase = "running"
  /\ op.kind = "start"
  /\ PromiseAll(op.inv) # "pending"
  /\ IF PromiseAll(op.inv) = "fulfilled"
     THEN /\ runs' = Append(runs, [kind |-> RunKind(op.ev),
                                   runId |-> op.runId,
                                   handlers |-> disp[op.d].handlers,
                                   inheritableHandlers |-> disp[op.d].inheritableHandlers,
                                   _parentRunId |-> disp[op.d]._parentRunId])
          /\ snap' = Append(snap, [d |-> op.d,
                                   runId |-> op.runId,
                                   parentRunId |-> op.parentRunId,
                                   handlers |-> heap[disp[op.d].handlers],
                                   inheritableHandlers |-> heap[disp[op.d].inheritableHandlers],
                                   started |-> Started(op.inv)])
          /\ op' = Completed("returned", Len(runs) + 1)
     ELSE /\ op' = Completed("threw", 0)
          /\ UNCHANGED <<runs, snap>>
  /\ UNCHANGED <<hobj, heap, disp, nextUuid, origin, reg, calls>>
  /\ UNCHANGED <<configVars, adapterVars, last>>

(* ---------------------- run managers: handle operations ----------------- *)
\* (variant: a run manager that refuses events once its run has ended)
HandleBegin_Guarded(r, ev) ==
  /\ op.phase = "idle"
  /\ ~(op.ended /\ op.rm = r)
  /\ ev \in RunEvents(runs[r].kind)
  /\ op' = [phase |-> "running", kind |-> "handle", ev |-> ev, d |-> 0, rm |-> r,
            runId |-> runs[r].runId,
            parentRunId |-> runs[r]._parentRunId,
            inv |-> FanOut(heap[runs[r].handlers], hobj, ev),
            result |-> "none", invoked |-> 0, failed |-> 0,
            ended |-> FALSE, after |-> op.ended /\ op.rm = r]
  /\ UNCHANGED <<hobj, heap, disp, runs, nextUuid, origin, snap, reg, calls>>
  /\ UNCHANGED <<configVars, adapterVars, last>>

\* a method of a run manager up to its await: there is no test of what was
\* dispatched on the run before
HandleBegin(r, ev) ==
  /\ op.phase = "idle"
  /\ ev \in RunEvents(runs[r].kind)
  /\ op' = [phase |-> "running", kind |-> "handle", ev |-> ev, d |-> 0, rm |-> r,
            runId |-> runs[r].runId,
            parentRunId |-> runs[r]._parentRunId,
            inv |-> FanOut(heap[runs[r].handlers], hobj, ev),
            result |-> "none", invoked |-> 0, failed |-> 0,
            ended |-> FALSE, after |-> op.ended /\ op.rm = r]
  /\ UNCHANGED <<hobj, heap, disp, runs, nextUuid, origin, snap, reg, calls>>
  /\ UNCHANGED <<configVars, adapterVars, last>>

HandleEnd ==
  /\ op.phase = "running"
  /\ op.kind = "handle"
  /\ PromiseAll(op.inv) # "pending"
  /\ op' = Completed(IF PromiseAll(op.inv) = "fulfilled" THEN "returned" ELSE "threw",
                     op.rm)
  /\ UNCHANGED <<hobj, heap, disp, runs, nextUuid, origin, snap, reg, calls>>
  /\ UNCHANGED <<configVars, adapterVars, last>>

\* (variant: the child created with the run's own parent as its parent)
getChild_SameParent(hp, run) ==
  setHandlers(NewManager(hp, run._parentRunId), hp[run.inheritableHandlers], TRUE)

\* CallbackManagerForChainRun.getChild / CallbackManagerForToolRun.getChild
getChild(hp, run) ==
  setHandlers(NewManager(hp, run.runId), hp[run.inheritableHandlers], TRUE)

GetChild(r) ==
  /\ runs[r].kind \in {"chain", "tool"}
  /\ Len(disp) < MaxDisp
  /\ LET st == getChild(heap, runs[r])
     IN  /\ disp' = Append(disp, st.m)
         /\ heap' = Collect(st.heap, disp', runs)
  /\ origin' = Append(origin, r)
  /\ reg' = Append(reg, [inh |-> {}, any |-> {}])
  /\ UNCHANGED <<hobj, runs, nextUuid, op, snap, calls>>
  /\ UNCHANGED <<configVars, adapterVars, last>>

(* ------------------------------ configure ------------------------------- *)
\* CallbackManager.configure called with a manager (d > 0), a list or nothing
\* as inheritableHandlers
Configure(source, d, sourceList, localHandlers, localList, options) ==
  /\ Len(disp) < MaxDisp
  /\ source = "manager" <=> d > 0
  /\ source # "list" => sourceList = <<>>
  /\ localHandlers = "absent" => localList = <<>>
  /\ \E w \in {configure(heap, hobj, source, disp[IF d > 0 THEN d ELSE 1],
                           sourceList, localHandlers, localList, options, tracing)} :
         IF w.undefined
         THEN /\ configured' = [called |-> TRUE, source |-> source,
                                sourceLen |-> Len(sourceList),
                                localHandlers |-> localHandlers,
                                localList |-> localList, options |-> options,
                                result |-> "undefined", src |-> d, d |-> 0]
              /\ UNCHANGED <<hobj, heap, disp, origin, reg>>
         ELSE /\ configured' = [called |-> TRUE, source |-> source,
                                sourceLen |-> Len(sourceList),
                                localHandlers |-> localHandlers,
                                localList |-> localList, options |-> options,
                                result |-> "manager", src |-> d, d |-> Len(disp) + 1]
              /\ hobj' = w.hobj
              /\ disp' = Append(disp, w.m)
              /\ heap' = Collect(w.heap, disp', runs)
              /\ origin' = Append(origin, IF d > 0 THEN origin[d] ELSE 0)
              /\ reg' = Append(reg, [inh |-> Range(w.heap[w.m.inheritableHandlers]),
                                     any |-> Range(w.heap[w.m.handlers])])
  /\ UNCHANGED <<runs, nextUuid, op, snap, calls, last, tracing, adapterVars>>

\* d.copy(additionalHandlers, inherit) called on dispatcher d
Copy(d, additionalHandlers, inherit) ==
  /\ Len(disp) < MaxDisp
  /\ \E w \in {copy([heap |-> heap, m |-> disp[d], hobj |-> hobj],
                     additionalHandlers, inherit)} :
       /\ hobj' = w.hobj
       /\ disp' = Append(disp, w.m)
       /\ heap' = Collect(w.heap, disp', runs)
       /\ reg' = Append(reg, [inh |-> Range(w.heap[w.m.inheritableHandlers]),
                              any |-> Range(w.heap[w.m.handlers])])
  /\ origin' = Append(origin, origin[d])
  /\ last' = [call |-> "copy", d |-> d, hs |-> additionalHandlers, inherit |-> inherit]
  /\ UNCHANGED <<runs, nextUuid, op, snap, calls, configVars, adapterVars>>

(* ------------------------- ChatOpenAI._generate ------------------------- *)
\* (variant: _generate without the test of lines 281-283)
GenerateBegin_NoStopTest(optStop) ==
  /\ gen.pc = "idle"
  /\ LET params == [invocationParams(llm) EXCEPT !.stop = optStop \/ @]
     IN  gen' = [gen EXCEPT !.pc = IF params.stream THEN "streaming" ELSE "requested",
                            !.optStop = optStop,
                            !.params = params,
                            !.open = params.stream,
                            !.promise = IF params.stream THEN "pending" ELSE "none"]
  /\ UNCHANGED <<coreVars, configVars, llm, tokens>>

\* _generate(messages, options, runManager) up to its await, on run manager r:
\* the stop conflict, the request parameters, the request issued
GenerateBegin(optStop) ==
  /\ gen.pc = "idle"
  /\ IF llm.stop /\ optStop
     THEN gen' = [gen EXCEPT !.pc = "threw", !.optStop = optStop]
     ELSE LET params == [invocationParams(llm) EXCEPT !.stop = optStop \/ @]
          IN  gen' = [gen EXCEPT !.pc = IF params.stream THEN "streaming" ELSE "requested",
                                 !.optStop = optStop,
                                 !.params = params,
                                 !.open = params.stream,
                                 !.promise = IF params.stream THEN "pending" ELSE "none"]
  /\ UNCHANGED <<coreVars, configVars, llm, tokens>>

\* the stream messages: "[DONE]", or a chunk with its choices
Parts == [index : 0..MaxIndex, delta : {NoContent, Content(<<"a">>)}, finish : BOOLEAN]
Messages == {[done |-> TRUE, parts |-> <<>>]}
            \cup {[done |-> FALSE, parts |-> ps] : ps \in SeqsUpTo(Parts, MaxParts)}

\* lines 342-372: each part updates its choice and starts, without awaiting
\* it, a handleLLMNewToken dispatch on the run manager; acc is
\* [threw, choices, tokens] (a token's index, which the dispatch is not
\* passed, is kept as history)
RECURSIVE ProcessParts(_, _, _)
ProcessParts(acc, parts, r) ==
  IF parts = <<>> THEN acc
  ELSE LET u == UpdateChoice(acc.choices, parts[1])
       IN  IF u.threw THEN [acc EXCEPT !.threw = TRUE]
           ELSE ProcessParts(
                  [threw   |-> FALSE,
                   choices |-> u.choices,
                   tokens  |-> Append(acc.tokens,
                                 [text |-> OrEmpty(parts[1].delta),
                                  index |-> parts[1].index,
                                  inv  |-> FanOut(heap[runs[r].handlers], hobj,
                                                  "handleLLMNewToken")])],
                  Tail(parts), r)

\* resolve(response): settles the promise if it is still pending
Resolve(g) ==
  [g EXCEPT !.resolved = TRUE,
            !.promise = IF @ = "pending" THEN "fulfilled" ELSE @,
            !.data = IF g.promise = "pending"
                     THEN (IF g.hasResponse THEN "response" ELSE "undefined")
                     ELSE @]

\* onmessage(event), lines 310-383, with runManager = run manager r.  An
\* exception thrown by find leaves onmessage where it was thrown; the stream
\* goes on or fails (StreamFail) as the transport decides.
OnMessage(msg, r) ==
  /\ gen.open
  /\ gen.received < MaxMsgs
  /\ IF msg.done
     THEN /\ gen' = [(IF gen.resolved THEN gen ELSE Resolve(gen))
                       EXCEPT !.received = @ + 1]
          /\ UNCHANGED tokens
     ELSE \E acc \in {ProcessParts([threw |-> FALSE, choices |-> gen.choices,
                                    tokens |-> tokens], msg.parts, r)} :
            /\ tokens' = acc.tokens
            /\ gen' = [(IF /\ ~acc.threw
                           /\ ~gen.resolved
                           /\ \A k \in DOMAIN msg.parts : msg.parts[k].finish
                        THEN Resolve([gen EXCEPT !.hasResponse = TRUE])
                        ELSE [gen EXCEPT !.hasResponse = TRUE])
                         EXCEPT !.choices = acc.choices, !.received = @ + 1]
  /\ UNCHANGED <<coreVars, configVars, llm>>

\* the request fails: lines 385-390
StreamFail ==
  /\ gen.open
  /\ gen' = [gen EXCEPT !.open = FALSE,
                        !.rejected = TRUE,
                        !.promise = IF @ = "pending" THEN "rejected" ELSE @]
  /\ UNCHANGED <<coreVars, configVars, llm, tokens>>

\* the stream ends and the request completes; nothing is resolved by it
StreamEnd ==
  /\ gen.open
  /\ gen' = [gen EXCEPT !.open = FALSE]
  /\ UNCHANGED <<coreVars, configVars, llm, tokens>>

\* the await of the streamed response ends: lines 403-434 on the response
\* object as it is now
GenerateReturn ==
  /\ gen.pc = "streaming"
  /\ gen.promise \in {"fulfilled", "rejected"}
  /\ IF \/ gen.promise = "rejected"
        \/ gen.data = "undefined"
        \/ \E j \in DOMAIN gen.choices : gen.choices[j].hole
     THEN gen' = [gen EXCEPT !.pc = "threw"]
     ELSE gen' = [gen EXCEPT !.pc = "returned",
                             !.generations = Generations(gen.choices)]
  /\ UNCHANGED <<coreVars, configVars, llm, tokens>>

\* the request without streaming is answered (params.n choices) or fails:
\* lines 392-434
Respond(ok) ==
  /\ gen.pc = "requested"
  /\ IF ok
     THEN gen' = [gen EXCEPT !.pc = "returned",
                             !.generations = [j \in 1..gen.params.n |-> <<"a">>]]
     ELSE gen' = [gen EXCEPT !.pc = "threw"]
  /\ UNCHANGED <<coreVars, configVars, llm, tokens>>

\* a handler's invocation for a token settles
SettleToken(k, i, outcome) ==
  /\ k \in DOMAIN tokens
  /\ i \in DOMAIN tokens[k].inv
  /\ tokens[k].inv[i].st = "pending"
  /\ tokens' = [tokens EXCEPT ![k].inv[i].st = outcome]
  /\ UNCHANGED <<coreVars, configVars, llm, gen>>

(* ------------------------- specifications ------------------------------- *)
\* Registration calls alone, in any number, on the dispatcher.  Besides the
\* handlers of Handlers the caller holds one more, a different instance with
\* the name of the first.
RosterHandlers == 1..(NumHandlers + 1)

InitRoster ==
  /\ hobj = [h \in RosterHandlers |->
               HandlerObject(UserName(IF h = NumHandlers + 1 THEN 1 ELSE h), NoFlags, FALSE)]
  /\ \E seed \in Seeds : InitManager(seed)
  /\ InitIdle

NextRoster ==
  \/ \E h \in RosterHandlers, inherit \in BOOLEAN : AddHandler(1, h, inherit)
  \/ \E h \in RosterHandlers : RemoveHandler(1, h)
  \/ \E hs \in SeqsUpTo(RosterHandlers, MaxRoster), inherit \in BOOLEAN :
       SetHandlers(1, hs, inherit)

SpecRoster == InitRoster /\ [][NextRoster]_vars

\* configure calls, each free to take an earlier result as inheritableHandlers,
\* with and without LANGCHAIN_TRACING in the environment.  The handlers the
\* caller constructs are of its own classes, except the last, which may also be
\* a ConsoleCallbackHandler or a LangChainTracer the caller constructed.
SuppliedNames == {UserName(NumHandlers), ConsoleName, TracerName}

InitConfigure ==
  /\ \E name \in SuppliedNames :
        hobj = [h \in Handlers |->
                  HandlerObject(IF h = NumHandlers THEN name ELSE UserName(h),
                                NoFlags, FALSE)]
  /\ InitManager(<<>>)
  /\ tracing \in BOOLEAN
  /\ configured = NotConfigured
  /\ llm = DefaultFields
  /\ gen = NotGenerating
  /\ tokens = <<>>

NextConfigure ==
  \E source \in SourceKinds, localHandlers \in {"absent", "list"}, options \in OptionKinds :
    \E d \in 0..Len(disp), sourceList, localList \in SeqsUpTo(Handlers, 1) :
      Configure(source, d, sourceList, localHandlers, localList, options)

SpecConfigure == InitConfigure /\ [][NextConfigure]_vars

\* Copies of dispatchers, made by copy() and by configure given a dispatcher,
\* and up to MaxCalls registration calls on any of the dispatchers.
NextCopy ==
  \/ \E d \in DOMAIN disp, hs \in SeqsUpTo(Handlers, 1), inherit \in BOOLEAN :
       Copy(d, hs, inherit)
  \/ \E d \in DOMAIN disp, localHandlers \in {"absent", "list"}, options \in OptionKinds :
       \E localList \in SeqsUpTo(Handlers, 1) :
         Configure("manager", d, <<>>, localHandlers, localList, options)
  \/ /\ calls < MaxCalls
     /\ \E d \in DOMAIN disp :
          \/ \E h \in Handlers, inherit \in BOOLEAN : AddHandler(d, h, inherit)
          \/ \E h \in Handlers : RemoveHandler(d, h)
          \/ \E hs \in SeqsUpTo(Handlers, MaxLen), inherit \in BOOLEAN :
               SetHandlers(d, hs, inherit)

SpecCopy == Init /\ [][NextCopy]_vars

\* One configure call, runs started on its result and on the dispatchers
\* getChild() derives from them.
NextLocal ==
  \/ /\ ~configured.called
     /\ \E source \in SourceKinds, localHandlers \in {"absent", "list"}, options \in OptionKinds :
          \E d \in 0..Len(disp), sourceList, localList \in SeqsUpTo(Handlers, 1) :
            Configure(source, d, sourceList, localHandlers, localList, options)
  \/ \E d \in DOMAIN disp, ev \in StartEvents : StartBegin(d, ev, FALSE)
  \/ StartEnd
  \/ \E r \in DOMAIN runs : GetChild(r)

SpecLocal == InitConfigure /\ [][NextLocal]_vars

\* The fan-out of every event of one run at a time, minted run identifiers.
NextFan ==
  \/ \E ev \in StartEvents : StartBegin(1, ev, FALSE)
  \/ \E i \in 1..MaxLen, outcome \in {"ok", "failed"} : Settle(i, outcome)
  \/ StartEnd
  \/ \E r \in DOMAIN runs : \E ev \in RunEvents(runs[r].kind) : HandleBegin(r, ev)
  \/ HandleEnd

SpecFan == InitFan /\ [][NextFan]_vars

\* The same, with the event loop's scheduling: once the promise awaited by a
\* dispatch operation has settled, the operation's continuation is run.
SpecFanLive == InitFan /\ [][NextFan]_vars /\ WF_vars(StartEnd) /\ WF_vars(HandleEnd)

\* One _generate call of a ChatOpenAI instance, on the run manager
\* handleLLMStart returned for the dispatcher's handlers.
FieldSets == [n : {0, 2}, streaming : {"absent", "true"}, stop : BOOLEAN,
              kwN : {0, 2}, kwStream : {"absent", "true"}]

InitStream ==
  /\ \E f \in [Handlers -> {NoFlags, [NoFlags EXCEPT !.ignoreLLM = TRUE]}] :
        hobj = [h \in Handlers |-> HandlerObject(UserName(h), f[h], TRUE)]
  /\ LET st == AddAll(NewManager(<<>>, Undefined),
                      [i \in 1..MaxLen |-> ((i - 1) % NumHandlers) + 1], TRUE)
     IN  /\ heap = st.heap
         /\ disp = <<st.m>>
         /\ runs = <<[kind |-> "llm", runId |-> Uuid(1),
                      handlers |-> st.m.handlers,
                      inheritableHandlers |-> st.m.inheritableHandlers,
                      _parentRunId |-> Undefined]>>
         /\ snap = <<[d |-> 1, runId |-> Uuid(1), parentRunId |-> Undefined,
                      handlers |-> st.heap[st.m.handlers],
                      inheritableHandlers |-> st.heap[st.m.inheritableHandlers],
                      started |-> [i \in DOMAIN st.heap[st.m.handlers] |->
                                     [h |-> st.heap[st.m.handlers][i],
                                      invoked |-> ~hobj[st.heap[st.m.handlers][i]].ignoreLLM,
                                      settled |-> TRUE]]]>>
  /\ nextUuid = 2
  /\ op = NoOp
  /\ origin = <<0>>
  /\ reg = <<[inh |-> Handlers, any |-> Handlers]>>
  /\ calls = 0
  /\ last = NoCall
  /\ tracing = FALSE
  /\ configured = NotConfigured
  /\ \E fields \in FieldSets : /\ ~Construct(fields).threw
                               /\ llm = Construct(fields).llm
  /\ gen = NotGenerating
  /\ tokens = <<>>

NextStream ==
  \/ \E optStop \in BOOLEAN : GenerateBegin(optStop)
  \/ \E msg \in Messages : OnMessage(msg, 1)
  \/ StreamFail
  \/ StreamEnd
  \/ GenerateReturn
  \/ \E ok \in BOOLEAN : Respond(ok)
  \/ \E k \in 1..(MaxMsgs * MaxParts), i \in 1..MaxLen, outcome \in {"ok", "failed"} :
       SettleToken(k, i, outcome)

SpecStream == InitStream /\ [][NextStream]_vars

\* Runs, derived dispatchers and up to MaxCalls registration calls, interleaved.
Next ==
  \/ /\ calls < MaxCalls
     /\ \E d \in DOMAIN disp :
          \/ \E h \in Handlers, inherit \in BOOLEAN : AddHandler(d, h, inherit)
          \/ \E h \in Handlers : RemoveHandler(d, h)
          \/ \E hs \in SeqsUpTo(Handlers, MaxLen), inherit \in BOOLEAN :
               SetHandlers(d, hs, inherit)
  \/ \E d \in DOMAIN disp, ev \in StartEvents, supplied \in BOOLEAN : StartBegin(d, ev, supplied)
  \/ StartEnd
  \/ \E r \in DOMAIN runs : \E ev \in RunEvents(runs[r].kind) : HandleBegin(r, ev)
  \/ HandleEnd
  \/ \E r \in DOMAIN runs : GetChild(r)

Spec == Init /\ [][Next]_vars

(* ============================== properties ============================== *)
\* the handlers a dispatch operation went through, in array order
Notified(o) == [i \in DOMAIN o.inv |-> o.inv[i].h]

Running == op.phase = "running"

\* C1. Isolation: a handler that fails on an event stops neither the delivery
\* of the event to the other handlers nor the dispatch call, which never throws:
\* every handler that does not suppress the event is invoked, and every
\* start-operation and handle-operation ends by returning.
C1_Isolation ==
  /\ op.result # "threw"
  /\ Running =>
       /\ Notified(op) = heap[disp[1].handlers]
       /\ \A i \in DOMAIN op.inv :
            (op.inv[i].st = "skipped") <=> Suppressed(hobj[op.inv[i].h], op.ev)

\* C1 witness: a dispatch returned although one of the two handlers it invoked failed.
C1_Witness == op.result = "returned" /\ op.invoked = 2 /\ op.failed = 1

\* C2. Snapshot immutability: the handlers a handle-operation on a run manager
\* notifies are the handlers its dispatcher had when the run manager was
\* returned, whatever was registered or removed on the dispatcher since.
C2_SnapshotImmutable ==
  (Running /\ op.kind = "handle") => Notified(op) = snap[op.rm].handlers

\* C3. Inheritance invariant: after any sequence of addHandler, removeHandler
\* and setHandlers calls, every handler in inheritableHandlers is in handlers.
C3_InheritableSubset ==
  \A d \in DOMAIN disp :
     Range(heap[disp[d].inheritableHandlers]) \subseteq Range(heap[disp[d].handlers])

\* C3 witness: after a registration call, a dispatcher with a local handler
\* next to an inheritable one.
C3_Witness ==
  /\ calls > 0
  /\ Len(heap[disp[1].handlers]) = 2
  /\ Len(heap[disp[1].inheritableHandlers]) = 1

PipelineEvents == {"handleChainStart", "handleChainEnd", "handleChainError"}
AgentEvents    == {"handleAgentAction", "handleAgentEnd"}

\* C4 as claimed. Pipeline suppression: a handler with ignoreChain set receives
\* none of handleChainStart, handleChainEnd, handleChainError, handleAgentAction
\* and handleAgentEnd, whatever its other flags are.
C4_AsClaimed ==
  Running =>
    \A i \in DOMAIN op.inv :
       (hobj[op.inv[i].h].ignoreChain /\ op.ev \in PipelineEvents \cup AgentEvents)
          => op.inv[i].st = "skipped"

\* C4 amended. A handler with ignoreChain set receives none of handleChainStart,
\* handleChainEnd and handleChainError, whatever its other flags are;
\* handleAgentAction and handleAgentEnd are withheld from exactly the handlers
\* with ignoreAgent set, whatever their ignoreChain flag is.
C4_Amended ==
  Running =>
    \A i \in DOMAIN op.inv :
       /\ (hobj[op.inv[i].h].ignoreChain /\ op.ev \in PipelineEvents)
             => op.inv[i].st = "skipped"
       /\ op.ev \in AgentEvents
             => ((op.inv[i].st = "skipped") <=> hobj[op.inv[i].h].ignoreAgent)

\* C4 witness: handleChainEnd withheld from a handler that suppresses pipeline
\* events only, while the other handler receives it.
C4_Witness ==
  /\ Running /\ op.ev = "handleChainEnd"
  /\ \E i, j \in DOMAIN op.inv :
       /\ hobj[op.inv[i].h].ignoreChain
       /\ ~hobj[op.inv[i].h].ignoreAgent /\ ~hobj[op.inv[i].h].ignoreLLM
       /\ op.inv[i].st = "skipped"
       /\ op.inv[j].st # "skipped"

\* C5. Child derivation: the dispatcher getChild() returns has as handlers
\* exactly the inheritable handlers the originating dispatcher had when the run
\* was started, and its inheritableHandlers equal its handlers.
C5_ChildDerivation ==
  [][Len(disp') > Len(disp) =>
       LET c == Len(disp')
       IN  /\ heap'[disp'[c].handlers] = snap[origin'[c]].inheritableHandlers
           /\ heap'[disp'[c].inheritableHandlers] = heap'[disp'[c].handlers]]_vars

\* the dispatchers a dispatcher descends from through getChild(), itself excluded
RECURSIVE Ancestors(_)
Ancestors(d) ==
  IF origin[d] = 0 THEN {}
  ELSE {snap[origin[d]].d} \cup Ancestors(snap[origin[d]].d)

\* handlers that may reach dispatcher d: registered on d itself, or registered
\* with inherit = true on a dispatcher d descends from
MayReach(d) == reg[d].any \cup UNION {reg[a].inh : a \in Ancestors(d)}

\* C6. A handler registered with inherit = false is notified of the runs started
\* on its own dispatcher but of no run of a dispatcher derived from it through
\* getChild(), at any depth; a handler registered with inherit = true is
\* notified of both.  In terms of the state: a start-operation goes through
\* every handler of its dispatcher, the run manager it returns refers to the
\* dispatcher's two arrays, getChild() hands on exactly the run's inheritable
\* handlers, and so every handler a derived dispatcher or one of its runs
\* notifies was registered on it or registered as inheritable on an ancestor.
C6_State ==
  /\ \A d \in DOMAIN disp : Range(heap[disp[d].handlers]) \subseteq MayReach(d)
  /\ \A r \in DOMAIN runs : Range(heap[runs[r].handlers]) \subseteq MayReach(snap[r].d)
  /\ Running => Range(Notified(op)) \subseteq
                  MayReach(IF op.kind = "start" THEN op.d ELSE snap[op.rm].d)

C6_Step ==
  /\ (op.phase = "idle" /\ op'.phase = "running" /\ op'.kind = "start")
        => Notified(op') = heap[disp[op'.d].handlers]
  /\ Len(runs') > Len(runs)
        => /\ heap'[runs'[Len(runs')].handlers] = heap'[disp'[op.d].handlers]
           /\ heap'[runs'[Len(runs')].inheritableHandlers]
                 = heap'[disp'[op.d].inheritableHandlers]
  /\ Len(disp') > Len(disp)
        => heap'[disp'[Len(disp')].handlers]
              = heap[runs[origin'[Len(disp')]].inheritableHandlers]

C6_Inheritance == []C6_State /\ [][C6_Step]_vars

\* C6 witness: the root dispatcher holds an inheritable and a local handler, and
\* a run started on a dispatcher derived from it notifies the inheritable one only.
C6_Witness ==
  /\ Running /\ op.kind = "start" /\ origin[op.d] # 0
  /\ heap[disp[1].handlers] = <<1, NumHandlers>>
  /\ reg[1].any = {1, NumHandlers} /\ reg[1].inh = {1}
  /\ Notified(op) = <<1>>

\* C7. Run-tree linkage: every event of a run carries the (runId, parentRunId)
\* pair its start event carried; a run started on a dispatcher obtained by
\* getChild() of run r carries r's runId as parentRunId, and a run started on a
\* dispatcher constructed without a parent carries none.
C7_Linkage ==
  /\ \A d \in DOMAIN disp :
       disp[d]._parentRunId = IF origin[d] = 0 THEN Undefined ELSE runs[origin[d]].runId
  /\ \A r \in DOMAIN runs :
       /\ runs[r].runId = snap[r].runId
       /\ runs[r]._parentRunId = snap[r].parentRunId
  /\ (Running /\ op.kind = "start") =>
       op.parentRunId = IF origin[op.d] = 0 THEN Undefined ELSE runs[origin[op.d]].runId
  /\ (Running /\ op.kind = "handle") =>
       /\ op.runId = snap[op.rm].runId
       /\ op.parentRunId = snap[op.rm].parentRunId
       /\ op.parentRunId = IF origin[snap[op.rm].d] = 0 THEN Undefined
                           ELSE runs[origin[snap[op.rm].d]].runId

\* C7 witness: an event of a run of a derived dispatcher is being delivered
\* with the parent run's identifier.
C7_Witness ==
  /\ Running /\ op.kind = "handle"
  /\ origin[snap[op.rm].d] # 0
  /\ op.parentRunId = runs[origin[snap[op.rm].d]].runId
  /\ op.parentRunId # Undefined

\* C8. Join point: a dispatch operation completes only when every handler
\* invocation it started has settled, by success or by failure.
C8_JoinPoint ==
  [][(op.phase = "running" /\ op'.phase = "idle")
        => \A i \in DOMAIN op.inv : op.inv[i].st # "pending"]_vars

\* C8 witness: a dispatch that invoked two async handlers has completed.
C8_Witness == op.phase = "idle" /\ op.result = "returned" /\ op.invoked = 2

\* the handler invocations started for tokens have all settled
TokensSettled ==
  \A k \in DOMAIN tokens : \A i \in DOMAIN tokens[k].inv : tokens[k].inv[i].st # "pending"

\* C9. When the streaming adapter raises a token event, every handler
\* invocation for that token has settled before the adapter processes the next
\* stream message or returns its result: a step that processes a stream
\* message, or that ends _generate, starts with no token invocation pending.
C9_TokensSettled ==
  [][(gen'.received > gen.received \/ (gen.pc = "streaming" /\ gen'.pc # "streaming"))
        => TokensSettled]_vars

\* C10. configure returns undefined exactly when inheritableHandlers and
\* localHandlers are both absent, options.verbose is not on and
\* LANGCHAIN_TRACING is not in the environment; otherwise, and also for a
\* supplied empty list, it returns a CallbackManager.
C10_ConfigureUndefined ==
  configured.called =>
    ((configured.result = "undefined")
       <=> (/\ configured.source = "absent"
            /\ configured.localHandlers = "absent"
            /\ configured.options # "verboseTrue"
            /\ ~tracing))

\* C10 witness: configure given an empty list and nothing else returned a manager.
C10_Witness ==
  /\ configured.called /\ ~tracing
  /\ configured.source = "list" /\ configured.sourceLen = 0
  /\ configured.localHandlers = "absent" /\ configured.options = "none"
  /\ configured.result = "manager"
  /\ heap[disp[configured.d].handlers] = <<>>

\* positions in dispatcher d's handlers / inheritableHandlers of the handlers
\* with the given name
Named(d, name) ==
  {i \in DOMAIN heap[disp[d].handlers] : hobj[heap[disp[d].handlers][i]].name = name}

NamedInheritable(d, name) ==
  {i \in DOMAIN heap[disp[d].inheritableHandlers] :
     hobj[heap[disp[d].inheritableHandlers][i]].name = name}

\* the last configure call returned a dispatcher
Returned == configured.called /\ configured.result = "manager"

\* no handler the caller constructed bears the given name
NotSupplied(name) == \A h \in Handlers : hobj[h].name # name

\* C11 as claimed. Tracer deduplication: with LANGCHAIN_TRACING set, the
\* dispatcher configure returns, also when its inheritableHandlers argument is
\* the result of an earlier configure call, holds exactly one handler named
\* "langchain_tracer", and that handler is inheritable.
C11_AsClaimed ==
  (tracing /\ Returned) =>
     /\ Cardinality(Named(configured.d, TracerName)) = 1
     /\ Cardinality(NamedInheritable(configured.d, TracerName)) = 1

\* C11 amended. The same, provided no handler the caller supplies bears the
\* tracer name: a supplied tracer is kept as supplied (non-inheritable when it
\* comes through localHandlers, a second one when the chain already has one).
C11_Amended ==
  (tracing /\ Returned /\ NotSupplied(TracerName)) =>
     /\ Cardinality(Named(configured.d, TracerName)) = 1
     /\ Cardinality(NamedInheritable(configured.d, TracerName)) = 1

\* C11 witness: configure was given the result of an earlier configure call,
\* which held the tracer, and returned a dispatcher with one tracer.
C11_Witness ==
  /\ tracing /\ Returned /\ NotSupplied(TracerName)
  /\ configured.src > 1
  /\ Named(configured.src, TracerName) # {}
  /\ Cardinality(Named(configured.d, TracerName)) = 1

\* C12. Console handler: the dispatcher configure returns with options.verbose
\* on holds exactly one handler with the console handler's name, and that
\* handler is not inheritable, also when the inheritableHandlers argument is
\* the result of an earlier verbose configure call (stated for callers that
\* construct no console handler themselves).
C12_ConsoleOnce ==
  (Returned /\ configured.options = "verboseTrue" /\ NotSupplied(ConsoleName)) =>
     /\ Cardinality(Named(configured.d, ConsoleName)) = 1
     /\ NamedInheritable(configured.d, ConsoleName) = {}

\* the number of handlers configure took from its inheritableHandlers argument
SourceLen ==
  IF configured.source = "manager"
  THEN Len(heap[disp[configured.src].handlers])
  ELSE configured.sourceLen

\* the duplicates of localHandlers in the dispatcher the last configure call
\* returned: copy() appends them after the duplicates of the source's handlers
LocalDuplicates ==
  {heap[disp[configured.d].handlers][SourceLen + i] : i \in DOMAIN configured.localList}

\* C13. In the dispatcher configure returns, the duplicate of every handler of
\* localHandlers is in handlers and not in inheritableHandlers; a run started on
\* that dispatcher notifies it, and a run started on a dispatcher derived from
\* it by getChild() does not.
C13_LocalNotInherited ==
  Returned =>
    /\ \A i \in DOMAIN configured.localList :
         SourceLen + i \in DOMAIN heap[disp[configured.d].handlers]
    /\ LocalDuplicates \cap Range(heap[disp[configured.d].inheritableHandlers]) = {}
    /\ (Running /\ op.kind = "start" /\ op.d = configured.d)
          => LocalDuplicates \subseteq Range(Notified(op))
    /\ (Running /\ op.kind = "start" /\ origin[op.d] # 0
          /\ snap[origin[op.d]].d = configured.d)
          => LocalDuplicates \cap Range(Notified(op)) = {}

\* C13 witness: a run is started on a dispatcher derived from the result of a
\* configure call that took one inheritable and one local handler, and it
\* notifies the inheritable one.
C13_Witness ==
  /\ Returned /\ configured.localList # <<>>
  /\ Running /\ op.kind = "start" /\ origin[op.d] # 0
  /\ snap[origin[op.d]].d = configured.d
  /\ Notified(op) # <<>>

\* C14. copy() isolation: no two dispatchers share a collection; the step that
\* makes a copy (copy(), or configure given a dispatcher) leaves every existing
\* dispatcher as it was and gives the copy handler instances that did not exist
\* before; and a registration call changes the collections of one dispatcher only.
C14_State ==
  \A d, e \in DOMAIN disp :
     d # e => {disp[d].handlers, disp[d].inheritableHandlers}
                \cap {disp[e].handlers, disp[e].inheritableHandlers} = {}

C14_Step ==
  /\ \A d, e \in DOMAIN disp :
       (d # e /\ <<heap'[disp'[d].handlers], heap'[disp'[d].inheritableHandlers]>>
                   # <<heap[disp[d].handlers], heap[disp[d].inheritableHandlers]>>)
         => /\ heap'[disp'[e].handlers] = heap[disp[e].handlers]
            /\ heap'[disp'[e].inheritableHandlers] = heap[disp[e].inheritableHandlers]
  /\ Len(disp') > Len(disp) =>
       /\ \A d \in DOMAIN disp :
            /\ disp'[d] = disp[d]
            /\ heap'[disp'[d].handlers] = heap[disp[d].handlers]
            /\ heap'[disp'[d].inheritableHandlers] = heap[disp[d].inheritableHandlers]
       /\ \A h \in DOMAIN hobj : hobj'[h] = hobj[h]
       /\ Range(heap'[disp'[Len(disp')].handlers]) \cap DOMAIN hobj = {}

C14_CopyIsolation == []C14_State /\ [][C14_Step]_vars

\* C14 witness: the dispatcher was emptied after copy() had duplicated its two
\* handlers, and the copy still holds its two.
C14_Witness ==
  /\ ~configured.called
  /\ Len(disp) > 1 /\ calls > 0
  /\ heap[disp[1].handlers] = <<>>
  /\ Len(heap[disp[2].handlers]) = 2

\* the handlers of the array the dispatch in progress maps over
Roster ==
  IF op.kind = "start" THEN heap[disp[op.d].handlers] ELSE heap[runs[op.rm].handlers]

\* C15. handleText on a run manager of any class is delivered to every handler
\* of the run, whatever the handler's ignoreLLM, ignoreChain and ignoreAgent are.
C15_TextToAll ==
  (Running /\ op.ev = "handleText") =>
     /\ Notified(op) = Roster
     /\ \A i \in DOMAIN op.inv : op.inv[i].st # "skipped"

\* C15 witness: handleText on an LLM run reaches a handler that has all three
\* flags set.
C15_Witness ==
  /\ Running /\ op.ev = "handleText" /\ runs[op.rm].kind = "llm"
  /\ \E i \in DOMAIN op.inv :
       /\ hobj[op.inv[i].h].ignoreLLM
       /\ hobj[op.inv[i].h].ignoreChain
       /\ hobj[op.inv[i].h].ignoreAgent
       /\ op.inv[i].st # "skipped"

LLMEvents == {"handleLLMStart", "handleLLMNewToken", "handleLLMEnd", "handleLLMError"}

\* C16. handleLLMStart, handleLLMNewToken, handleLLMEnd and handleLLMError are
\* delivered to a handler exactly when its ignoreLLM is not set, whatever the
\* other handlers' flags and its own ignoreChain and ignoreAgent are.
C16_LLMEvents ==
  (Running /\ op.ev \in LLMEvents) =>
     /\ Notified(op) = Roster
     /\ \A i \in DOMAIN op.inv :
          (op.inv[i].st = "skipped") <=> hobj[op.inv[i].h].ignoreLLM

\* C16 witness: handleLLMError is withheld from a handler with ignoreLLM set
\* and delivered, in the same fan-out, to one with the other two flags set.
C16_Witness ==
  /\ Running /\ op.ev = "handleLLMError"
  /\ \E i, j \in DOMAIN op.inv :
       /\ hobj[op.inv[i].h].ignoreLLM /\ op.inv[i].st = "skipped"
       /\ ~hobj[op.inv[j].h].ignoreLLM
       /\ hobj[op.inv[j].h].ignoreChain /\ hobj[op.inv[j].h].ignoreAgent
       /\ op.inv[j].st # "skipped"

ToolEvents == {"handleToolStart", "handleToolEnd", "handleToolError"}

\* C18. handleToolStart, handleToolEnd and handleToolError are delivered to a
\* handler exactly when its ignoreAgent is not set; a handler with only
\* ignoreChain or only ignoreLLM set receives all three.
C18_ToolEvents ==
  (Running /\ op.ev \in ToolEvents) =>
     /\ Notified(op) = Roster
     /\ \A i \in DOMAIN op.inv :
          (op.inv[i].st = "skipped") <=> hobj[op.inv[i].h].ignoreAgent

\* C18 witness: handleToolEnd is delivered to a handler that has only
\* ignoreChain set and withheld from one that has ignoreAgent set.
C18_Witness ==
  /\ Running /\ op.ev = "handleToolEnd"
  /\ \E i, j \in DOMAIN op.inv :
       /\ hobj[op.inv[i].h].ignoreChain
       /\ ~hobj[op.inv[i].h].ignoreAgent /\ ~hobj[op.inv[i].h].ignoreLLM
       /\ op.inv[i].st # "skipped"
       /\ hobj[op.inv[j].h].ignoreAgent /\ op.inv[j].st = "skipped"

\* C17. The run identifier a start-operation passes to the handlers is the
\* runId of the run manager it returns; it is the caller's identifier when
\* one is supplied, and otherwise a newly minted one, distinct from every
\* identifier minted before.
C17_State ==
  /\ \A r \in DOMAIN runs : runs[r].runId = snap[r].runId
  /\ \A r, q \in DOMAIN runs :
       (r # q /\ runs[r].runId.tag = "uuid") => runs[r].runId # runs[q].runId
  /\ (Running /\ op.kind = "start" /\ op.runId.tag = "uuid")
        => \A r \in DOMAIN runs : runs[r].runId # op.runId

C17_Step ==
  /\ (op.phase = "idle" /\ op'.phase = "running" /\ op'.kind = "start")
        => \/ op'.runId = CallerId /\ nextUuid' = nextUuid
           \/ /\ op'.runId.tag = "uuid"
              /\ op'.runId.n >= nextUuid
              /\ nextUuid' > op'.runId.n
  /\ Len(runs') > Len(runs) => runs'[Len(runs')].runId = op.runId

C17_RunId == []C17_State /\ [][C17_Step]_vars

\* C17 witness: a second start-operation is notifying the handlers with a
\* minted identifier while the first run, also with a minted one, exists.
C17_Witness ==
  /\ Running /\ op.kind = "start" /\ op.runId.tag = "uuid"
  /\ Len(runs) = 1 /\ runs[1].runId.tag = "uuid"

\* C19. removeHandler(h) removes every occurrence of the instance h from
\* handlers and from inheritableHandlers in one step and leaves every other
\* handler, also another instance with the same name, in both collections in
\* its order; removing a handler that is not registered changes nothing.
C19_RemoveHandler ==
  [][last'.call = "removeHandler" =>
       LET d == last'.d
           other(x) == x # last'.hs[1]
       IN  /\ heap'[disp'[d].handlers] = SelectSeq(heap[disp[d].handlers], other)
           /\ heap'[disp'[d].inheritableHandlers]
                 = SelectSeq(heap[disp[d].inheritableHandlers], other)
           /\ last'.hs[1] \notin Range(heap[disp[d].handlers])
                 => /\ heap'[disp'[d].handlers] = heap[disp[d].handlers]
                    /\ heap'[disp'[d].inheritableHandlers]
                          = heap[disp[d].inheritableHandlers]
           /\ hobj' = hobj]_vars

\* C19 witness: the first handler, registered before, has been removed; its
\* namesake and the other handler are left, in both collections.
C19_Witness ==
  /\ last.call = "removeHandler" /\ last.hs = <<1>>
  /\ 1 \in reg[1].any
  /\ heap[disp[1].handlers] = <<NumHandlers + 1, NumHandlers>>
  /\ heap[disp[1].inheritableHandlers] = <<NumHandlers + 1, NumHandlers>>

\* C20. After setHandlers(hs, inherit), handlers is hs, in order, and
\* inheritableHandlers is hs when inherit is true and empty when it is false,
\* whatever was registered before.
C20_SetHandlers ==
  [][last'.call = "setHandlers" =>
       /\ heap'[disp'[last'.d].handlers] = last'.hs
       /\ heap'[disp'[last'.d].inheritableHandlers]
             = IF last'.inherit THEN last'.hs ELSE <<>>]_vars

\* C20 witness: setHandlers with inherit = false has replaced a roster that
\* held an inheritable handler which is not in the new list.
C20_Witness ==
  /\ last.call = "setHandlers" /\ ~last.inherit /\ Len(last.hs) > 1
  /\ reg[1].inh \ Range(last.hs) # {}
  /\ heap[disp[1].handlers] = last.hs
  /\ heap[disp[1].inheritableHandlers] = <<>>

\* C21 as claimed. Start before everything: every handler to which an event
\* of a run is delivered has had the start notification of that run invoked
\* and settled before.
C21_AsClaimed ==
  (Running /\ op.kind = "handle") =>
     \A i \in DOMAIN op.inv :
        op.inv[i].st # "skipped" =>
           \E j \in DOMAIN snap[op.rm].started :
              /\ snap[op.rm].started[j].h = op.inv[i].h
              /\ snap[op.rm].started[j].invoked
              /\ snap[op.rm].started[j].settled

\* C21 amended. Every invocation the start fan-out of a run made has settled
\* before the run manager exists, hence before any later event of the run is
\* delivered to any handler; the start fan-out invoked the handlers that do
\* not suppress the start event, which need not be all the handlers a later
\* event is delivered to.
C21_Amended ==
  /\ \A r \in DOMAIN runs : \A j \in DOMAIN snap[r].started : snap[r].started[j].settled
  /\ (Running /\ op.kind = "handle") =>
        \A j \in DOMAIN snap[op.rm].started :
           /\ snap[op.rm].started[j].settled
           /\ snap[op.rm].started[j].invoked
                 <=> ~Suppressed(hobj[snap[op.rm].started[j].h],
                                 CHOOSE ev \in StartEvents : RunKind(ev) = runs[op.rm].kind)

\* C21 witness: an event of a run is being delivered; the start fan-out of that
\* run invoked every handler of the dispatcher.
C21_Witness ==
  /\ Running /\ op.kind = "handle"
  /\ snap[op.rm].started # <<>>
  /\ \A j \in DOMAIN snap[op.rm].started : snap[op.rm].started[j].invoked
  /\ \E i \in DOMAIN op.inv : op.inv[i].st = "pending"

\* a dispatch operation is in progress and one of its handler invocations has
\* not settled
Pending == Running /\ \E i \in DOMAIN op.inv : op.inv[i].st = "pending"

\* C22. Dispatch liveness: if every handler invocation started by a dispatch
\* operation eventually settles, by success or by failure, the operation
\* eventually completes; and no step completes a dispatch operation while one
\* of its invocations has not settled, so an invocation that never settles
\* keeps the operation from completing for ever.
C22_DispatchLiveness ==
  /\ (Pending ~> ~Pending) => (Running ~> ~Running)
  /\ [][Pending => (Running' /\ op'.ev = op.ev /\ op'.kind = op.kind)]_vars

\* C22 witness: a dispatch operation has completed after one of its
\* invocations settled by success and another by failure.
C22_Witness ==
  /\ op.phase = "idle" /\ op.result = "returned"
  /\ op.failed >= 1 /\ op.invoked > op.failed

\* C23. No lifecycle guard: once an end or error event has been dispatched on
\* a run, every method of its run manager can still be called, and the call
\* delivers the event, with the run's runId, to every handler of the run
\* manager that does not suppress it.
C23_NoLifecycleGuard ==
  /\ (op.phase = "idle" /\ op.ended) =>
        \A ev \in RunEvents(runs[op.rm].kind) : ENABLED HandleBegin(op.rm, ev)
  /\ (Running /\ op.kind = "handle" /\ op.after) =>
        /\ op.runId = snap[op.rm].runId
        /\ Notified(op) = heap[runs[op.rm].handlers]
        /\ \A i \in DOMAIN op.inv :
              op.inv[i].st = "skipped" <=> Suppressed(hobj[op.inv[i].h], op.ev)

\* C23 witness: a second terminal event is being delivered to two handlers on
\* a run whose terminal event was dispatched just before.
C23_Witness ==
  /\ Running /\ op.kind = "handle" /\ op.after
  /\ op.ev \in TerminalEvents
  /\ Cardinality({i \in DOMAIN op.inv : op.inv[i].st = "pending"}) = 2

\* the handlers and the inheritable handlers of the dispatcher a step has created
NewHandlers == heap'[disp'[Len(disp')].handlers]
NewInheritable == heap'[disp'[Len(disp')].inheritableHandlers]

\* C24. copy() registers the duplicate of every handler of the source
\* dispatcher as inheritable in the new dispatcher, whether or not the handler
\* was inheritable in the source; the duplicates of additionalHandlers follow,
\* inheritable exactly when copy's inherit flag is set.  Hence configure called
\* with a dispatcher as its inheritable source returns a dispatcher in which
\* the duplicates of all that dispatcher's handlers are inheritable.
C24_CopyStep ==
  (Len(disp') > Len(disp) /\ configured' = configured) =>
     /\ last'.call = "copy"
     /\ Len(NewHandlers) = Len(heap[disp[last'.d].handlers]) + Len(last'.hs)
     /\ NewInheritable = IF last'.inherit THEN NewHandlers
                         ELSE SubSeq(NewHandlers, 1, Len(heap[disp[last'.d].handlers]))

C24_ConfigureStep ==
  (Len(disp') > Len(disp) /\ configured' # configured /\ configured'.source = "manager") =>
     /\ Len(NewHandlers) >= Len(heap[disp[configured'.src].handlers])
     /\ \A i \in DOMAIN heap[disp[configured'.src].handlers] :
           NewHandlers[i] \in Range(NewInheritable)

C24_CopyInheritable == [][C24_CopyStep /\ C24_ConfigureStep]_vars

\* C24 witness: copy(additionalHandlers, false) was called on a dispatcher
\* with a non-inheritable handler; the duplicate of that handler is inheritable
\* in the copy and the duplicate of the additional handler is not.
C24_Witness ==
  /\ last.call = "copy" /\ ~last.inherit /\ last.hs # <<>>
  /\ ~configured.called
  /\ Len(disp) = 2
  /\ \E i \in DOMAIN heap[disp[1].handlers] :
        /\ heap[disp[1].handlers][i] \notin Range(heap[disp[1].inheritableHandlers])
        /\ heap[disp[2].handlers][i] \in Range(heap[disp[2].inheritableHandlers])
  /\ heap[disp[2].handlers][Len(heap[disp[2].handlers])]
        \notin Range(heap[disp[2].inheritableHandlers])

\* the concatenation, in arrival order, of the content deltas dispatched as
\* tokens for a choice index
RECURSIVE DeltaText(_, _)
DeltaText(ts, index) ==
  IF ts = <<>> THEN <<>>
  ELSE (IF ts[1].index = index THEN ts[1].text ELSE <<>>) \o DeltaText(Tail(ts), index)

\* C25. When a streamed generate call returns, the text of every choice is the
\* concatenation, in arrival order, of the content deltas received for that
\* choice index, which are the tokens dispatched through handleLLMNewToken
\* for it.
C25_TextIsConcatenation ==
  (gen.pc = "returned" /\ gen.params.stream) =>
     \A j \in DOMAIN gen.generations :
        gen.generations[j] = DeltaText(tokens, gen.choices[j].index)

\* C26. Every chat-completion request issued with stream = true asks for a
\* single choice (n = 1), whatever fields, modelKwargs included, the instance
\* was constructed with.
C26_StreamSingleChoice ==
  (gen.pc # "idle" /\ gen.params.stream) => gen.params.n = 1

\* C27. If stop sequences are set both on the instance and in the call's
\* options, generate fails before any completion request is issued and before
\* any token event is dispatched on the run manager.
C27_StopConflict ==
  (llm.stop /\ gen.optStop) =>
     /\ gen.pc = "threw"
     /\ gen.params = NoParams
     /\ ~gen.open /\ gen.promise = "none" /\ gen.received = 0
     /\ tokens = <<>>

\* C27 witness: generate was called with stop sequences in its options on an
\* instance that has stop sequences and streams, and has thrown.
C27_Witness ==
  /\ llm.stop /\ gen.optStop /\ gen.pc = "threw"
  /\ invocationParams(llm).stream
====
